---- MODULE Spec2Model ----
(***************************************************************************)
(* Model of src/app.py: the data preparation pipeline                      *)
(* (load_and_prepare_data), the stacked-area builder                       *)
(* (create_stacked_area_chart) and the animated map builder                *)
(* (create_vaccination_map), run in this order by the module's top level   *)
(* (lines 96, 501, 502).                                                   *)
(*                                                                         *)
(* Tables are sequences of records (one record per DataFrame row).         *)
(* A float cell is a record [k, n, d]: k = "num" is the rational n/d       *)
(* (d > 0, lowest terms), k = "nan" is NaN (which pandas treats as the     *)
(* null of a float column), k = "inf" / "ninf" are the IEEE infinities.    *)
(* Arithmetic is exact on rationals; rounding of binary floats and the     *)
(* sign of zero are not modelled.  A null string cell is NaS.              *)
(***************************************************************************)
EXTENDS Integers, Sequences, FiniteSets, TLC

VARIABLES pc, df_polio, df_metadata, df_pop, df_vaccine, df_polio_clean,
          df_income_time, df_polio_vaccine, country_means, stacked_traces,
          df_combined_grouped, fig_vaccination_map

vars == <<pc, df_polio, df_metadata, df_pop, df_vaccine, df_polio_clean,
          df_income_time, df_polio_vaccine, country_means, stacked_traces,
          df_combined_grouped, fig_vaccination_map>>

-----------------------------------------------------------------------------
(* Float cells and their arithmetic (numpy float64 semantics, exact).      *)

NaN == [k |-> "nan", n |-> 0, d |-> 1]
PInf == [k |-> "inf", n |-> 0, d |-> 1]
NInf == [k |-> "ninf", n |-> 0, d |-> 1]
NaS == "<NA>"

Abs(i) == IF i < 0 THEN -i ELSE i

RECURSIVE Gcd(_, _)
Gcd(a, b) == IF b = 0 THEN a ELSE Gcd(b, a % b)

Rat(n, d) ==
    LET s == IF d < 0 THEN -1 ELSE 1
        g == Gcd(Abs(n), Abs(d))
    IN  [k |-> "num", n |-> (s * n) \div g, d |-> (s * d) \div g]

Num(i) == [k |-> "num", n |-> i, d |-> 1]

isna(x) == x.k = "nan"
IsNum(x) == x.k = "num"

\* sign of a non-NaN cell: -1, 0 or 1
Sgn(x) ==
    CASE x.k = "inf" -> 1
      [] x.k = "ninf" -> -1
      [] OTHER -> IF x.n > 0 THEN 1 ELSE IF x.n < 0 THEN -1 ELSE 0

Signed(s) == IF s > 0 THEN PInf ELSE IF s < 0 THEN NInf ELSE NaN

FAdd(x, y) ==
    IF isna(x) \/ isna(y) THEN NaN
    ELSE IF IsNum(x) /\ IsNum(y) THEN Rat(x.n * y.d + y.n * x.d, x.d * y.d)
    ELSE IF IsNum(x) THEN y
    ELSE IF IsNum(y) THEN x
    ELSE IF x.k = y.k THEN x ELSE NaN

FMul(x, y) ==
    IF isna(x) \/ isna(y) THEN NaN
    ELSE IF IsNum(x) /\ IsNum(y) THEN Rat(x.n * y.n, x.d * y.d)
    ELSE Signed(Sgn(x) * Sgn(y))

\* x / y of two float64 arrays: a zero divisor gives inf, -inf or NaN and
\* never raises
FDiv(x, y) ==
    IF isna(x) \/ isna(y) THEN NaN
    ELSE IF IsNum(y) /\ y.n = 0 THEN Signed(Sgn(x))
    ELSE IF IsNum(x) /\ IsNum(y) THEN Rat(x.n * y.d, x.d * y.n)
    ELSE IF IsNum(x) THEN Num(0)
    ELSE IF IsNum(y) THEN Signed(Sgn(x) * Sgn(y))
    ELSE NaN

\* x < y on non-NaN cells; any comparison with NaN is False
FLess(x, y) ==
    IF isna(x) \/ isna(y) THEN FALSE
    ELSE IF IsNum(x) /\ IsNum(y) THEN
        \* integer parts first, then the fractions: small products
        \/ x.n \div x.d < y.n \div y.d
        \/ /\ x.n \div x.d = y.n \div y.d
           /\ (x.n % x.d) * y.d < (y.n % y.d) * x.d
    ELSE IF x.k = y.k THEN FALSE
    ELSE x.k = "ninf" \/ y.k = "inf"

FLeq(x, y) == ~isna(x) /\ ~isna(y) /\ ~FLess(y, x)

-----------------------------------------------------------------------------
(* Sequence helpers.                                                       *)

\* the concatenation of F(s[1]), ..., F(s[Len(s)])
FlatMap(s, F(_)) ==
    LET f[i \in 0..Len(s)] == IF i = 0 THEN <<>> ELSE f[i - 1] \o F(s[i])
    IN  f[Len(s)]

\* the elements of the finite set S in ascending order of the strict total
\* order Less
SortSet(S, Less(_, _)) ==
    [i \in 1..Cardinality(S) |->
        CHOOSE x \in S : Cardinality({y \in S : Less(y, x)}) = i - 1]

Range(s) == {s[i] : i \in DOMAIN s}

RECURSIVE FSum(_)
FSum(s) == IF s = <<>> THEN Num(0) ELSE FAdd(Head(s), FSum(Tail(s)))

NotNull(s) == SelectSeq(s, LAMBDA x : ~isna(x))

\* Series.sum(): nulls skipped, the empty sum is 0
sum(s) == FSum(NotNull(s))

\* Series.mean(): nulls skipped, the mean of no value is NaN
mean(s) ==
    LET v == NotNull(s)
    IN  IF v = <<>> THEN NaN ELSE FDiv(FSum(v), Num(Len(v)))

Column(t, Field(_)) == [i \in DOMAIN t |-> Field(t[i])]

-----------------------------------------------------------------------------
(* The four input files (lines 22-25), as bounded families of rows.        *)

MaxRows == 3

MILLION == 1000000

\* income-group labels in ascending Python str order (the order groupby and
\* pivot sort their keys in)
IncomeGroupLabels ==
    <<"High income", "Low income", "Lower middle income", "Upper middle income">>

StrRank(g) == CHOOSE i \in DOMAIN IncomeGroupLabels : IncomeGroupLabels[i] = g

PolioRow(c, cd, y, n) == [country |-> c, code |-> cd, year |-> y, num_cases |-> n]

\* rows of the polio cases file: entities with and without an ISO3 code,
\* a missing count, years of three 3-year periods
PolioRows ==
    { PolioRow("Chad", "TCD", 1980, Num(1)),
      PolioRow("Chad", "TCD", 1982, Num(0)),
      PolioRow("Chad", "TCD", 1983, Num(2)),
      PolioRow("Chad", "TCD", 1982, NaN),
      PolioRow("Mali", "MLI", 1980, Num(2)),
      PolioRow("Mali", "MLI", 1983, Num(1)),
      PolioRow("Mali", "MLI", 1983, Num(0)),
      PolioRow("Bolivia", "BOL", 1983, Num(2)),
      PolioRow("Bolivia", "BOL", 1980, Num(1)),
      PolioRow("France", "FRA", 1980, Num(0)),
      PolioRow("World", "OWID_WRL", 1980, Num(2)),
      PolioRow("Africa", NaS, 1983, Num(1)) }

SeqsUpTo(S, n) == UNION {[1..m -> S] : m \in 0..n}

\* read_csv gives the code column the object dtype only when some cell holds
\* text; the merges and the .str accessor below are modelled for that dtype
CodeColumnIsText(t) == t = <<>> \/ \E i \in DOMAIN t : t[i].code # NaS

MetadataFile ==
    << [Code |-> "TCD", IncomeGroup |-> "Low income"],
       [Code |-> "MLI", IncomeGroup |-> "Low income"],
       [Code |-> "BOL", IncomeGroup |-> "Lower middle income"],
       [Code |-> "FRA", IncomeGroup |-> "High income"],
       [Code |-> "WLD", IncomeGroup |-> NaS] >>

\* the wide population file: one row per country, one column per year
YearColumns == <<1980, 1982, 1983>>

PopRow(cd, a, b, c) ==
    [Code |-> cd, cols |-> (1980 :> a) @@ (1982 :> b) @@ (1983 :> c)]

PopulationFile ==
    << PopRow("TCD", Num(1000000), Num(1000000), Num(2000000)),
       PopRow("MLI", Num(4000000), NaN, Num(0)),
       PopRow("BOL", NaN, Num(100000), Num(100000)),
       PopRow("FRA", Num(4000000), Num(4000000), Num(4000000)) >>

VaccineRow(c, y, r) == [Entity |-> c, Year |-> y, Pol3 |-> r]

VaccineFile ==
    << VaccineRow("Chad", 1980, Num(40)),
       VaccineRow("Chad", 1982, Num(50)),
       VaccineRow("Mali", 1980, Num(90)),
       VaccineRow("Mali", 1983, NaN),
       VaccineRow("Bolivia", 1983, Num(96)),
       VaccineRow("France", 1980, Num(95)) >>

EmptyFigure == [data |-> <<>>, frames |-> <<>>, steps |-> <<>>]

Init ==
    /\ pc = "prepare"
    /\ df_polio \in {t \in SeqsUpTo(PolioRows, MaxRows) : CodeColumnIsText(t)}
    /\ df_metadata = MetadataFile
    /\ df_pop = PopulationFile
    /\ df_vaccine = VaccineFile
    /\ df_polio_clean = <<>>
    /\ df_income_time = <<>>
    /\ df_polio_vaccine = <<>>
    /\ country_means = <<>>
    /\ stacked_traces = <<>>
    /\ df_combined_grouped = {}
    /\ fig_vaccination_map = EmptyFigure

-----------------------------------------------------------------------------
(* load_and_prepare_data, lines 18-93.                                     *)

\* pd.melt of the year columns (lines 32-41): one row per (column, row)
df_pop_subset(pop) ==
    FlatMap(YearColumns, LAMBDA y :
        [i \in DOMAIN pop |->
            [Code |-> pop[i].Code, year |-> y, total_pop |-> pop[i].cols[y]]])

\* pd.merge(..., how='left') with metadata on code (lines 54-56): every left
\* row once per matching right row, in order; once with nulls when none match
MergeMetadata(left, meta) ==
    FlatMap(left, LAMBDA r :
        LET hits == SelectSeq(meta, LAMBDA m : m.Code = r.code)
        IN  IF hits = <<>>
            THEN << [country |-> r.country, code |-> r.code, year |-> r.year,
                     num_cases |-> r.num_cases, income_group |-> NaS] >>
            ELSE [j \in DOMAIN hits |->
                    [country |-> r.country, code |-> r.code, year |-> r.year,
                     num_cases |-> r.num_cases,
                     income_group |-> hits[j].IncomeGroup]])

\* pd.merge(..., how='left') with population on (code, year) (lines 58-59)
MergePopulation(left, pop) ==
    FlatMap(left, LAMBDA r :
        LET hits == SelectSeq(pop, LAMBDA p : p.Code = r.code /\ p.year = r.year)
        IN  IF hits = <<>>
            THEN << [country |-> r.country, code |-> r.code, year |-> r.year,
                     num_cases |-> r.num_cases, income_group |-> r.income_group,
                     total_pop |-> NaN] >>
            ELSE [j \in DOMAIN hits |->
                    [country |-> r.country, code |-> r.code, year |-> r.year,
                     num_cases |-> r.num_cases, income_group |-> r.income_group,
                     total_pop |-> hits[j].total_pop]])

\* line 62
CasesPerMillion(num_cases, total_pop) == FMul(FDiv(num_cases, total_pop), Num(MILLION))

WithCasesPerMillion(t) ==
    [i \in DOMAIN t |->
        [country |-> t[i].country, code |-> t[i].code, year |-> t[i].year,
         num_cases |-> t[i].num_cases, income_group |-> t[i].income_group,
         total_pop |-> t[i].total_pop,
         cases_per_million |-> CasesPerMillion(t[i].num_cases, t[i].total_pop)]]

\* lines 44-62
PreparePolio ==
    /\ pc = "prepare"
    /\ df_polio_clean' =
          WithCasesPerMillion(
              MergePopulation(MergeMetadata(df_polio, df_metadata),
                              df_pop_subset(df_pop)))
    /\ pc' = "aggregate"
    /\ UNCHANGED <<df_polio, df_metadata, df_pop, df_vaccine, df_income_time,
                   df_polio_vaccine, country_means, stacked_traces,
                   df_combined_grouped, fig_vaccination_map>>

\* a variant that takes the group's value from the averaged per-row values
IncomeGroupYearRow_FromMean(g, y, rows) ==
    LET avg == mean(Column(rows, LAMBDA r : r.cases_per_million))
    IN  [income_group |-> g, year |-> y,
         cases_per_million |-> avg,
         num_cases |-> sum(Column(rows, LAMBDA r : r.num_cases)),
         total_pop |-> sum(Column(rows, LAMBDA r : r.total_pop)),
         income_cases_per_million |-> avg]

\* one row of the (income_group, year) aggregation: lines 65-71
IncomeGroupYearRow(g, y, rows) ==
    LET num_cases == sum(Column(rows, LAMBDA r : r.num_cases))
        total_pop == sum(Column(rows, LAMBDA r : r.total_pop))
    IN  [income_group |-> g, year |-> y,
         cases_per_million |-> mean(Column(rows, LAMBDA r : r.cases_per_million)),
         num_cases |-> num_cases,
         total_pop |-> total_pop,
         income_cases_per_million |-> FMul(FDiv(num_cases, total_pop), Num(MILLION))]

\* dropna(subset=['income_group']).groupby(['income_group', 'year']).agg(...)
\* .reset_index(): one row per key, keys in ascending order (line 70)
IncomeTime(clean) ==
    LET kept == SelectSeq(clean, LAMBDA r : r.income_group # NaS)
        keys == {<<kept[i].income_group, kept[i].year>> : i \in DOMAIN kept}
        order == SortSet(keys, LAMBDA a, b :
                     \/ StrRank(a[1]) < StrRank(b[1])
                     \/ a[1] = b[1] /\ a[2] < b[2])
    IN  [j \in DOMAIN order |->
            IncomeGroupYearRow(order[j][1], order[j][2],
                SelectSeq(kept, LAMBDA r :
                    r.income_group = order[j][1] /\ r.year = order[j][2]))]

\* lines 64-71
AggregateIncome ==
    /\ pc = "aggregate"
    /\ df_income_time' = IncomeTime(df_polio_clean)
    /\ pc' = "merge_vaccine"
    /\ UNCHANGED <<df_polio, df_metadata, df_pop, df_vaccine, df_polio_clean,
                   df_polio_vaccine, country_means, stacked_traces,
                   df_combined_grouped, fig_vaccination_map>>

WithRate(r, rate) ==
    [country |-> r.country, code |-> r.code, year |-> r.year,
     num_cases |-> r.num_cases, income_group |-> r.income_group,
     total_pop |-> r.total_pop, cases_per_million |-> r.cases_per_million,
     pol3_immunization_rate |-> rate]

\* pd.merge(..., how='left') with the vaccine columns on (country, year):
\* lines 74-82
MergeVaccineData(left, vaccine) ==
    FlatMap(left, LAMBDA r :
        LET hits == SelectSeq(vaccine, LAMBDA v :
                        v.Entity = r.country /\ v.Year = r.year)
        IN  IF hits = <<>>
            THEN << WithRate(r, NaN) >>
            ELSE [j \in DOMAIN hits |-> WithRate(r, hits[j].Pol3)])

MergeVaccine ==
    /\ pc = "merge_vaccine"
    /\ df_polio_vaccine' = MergeVaccineData(df_polio_clean, df_vaccine)
    /\ pc' = "impute"
    /\ UNCHANGED <<df_polio, df_metadata, df_pop, df_vaccine, df_polio_clean,
                   df_income_time, country_means, stacked_traces,
                   df_combined_grouped, fig_vaccination_map>>

\* a variant that divides by the number of rows, nulls included
CountryMean_CountsNulls(t, c) ==
    LET rates == Column(SelectSeq(t, LAMBDA r : r.country = c),
                        LAMBDA r : r.pol3_immunization_rate)
    IN  IF NotNull(rates) = <<>> THEN NaN
        ELSE FDiv(sum(rates), Num(Len(rates)))

\* the mean a country's null rates are filled with: line 85
CountryMean(t, c) ==
    mean(Column(SelectSeq(t, LAMBDA r : r.country = c),
                LAMBDA r : r.pol3_immunization_rate))

\* groupby('country')['pol3_immunization_rate'].mean(): line 85
CountryMeans(t) ==
    [c \in {t[i].country : i \in DOMAIN t} |-> CountryMean(t, c)]

\* a variant without the country_nulls mask: every row of the country is
\* overwritten
ImputedRate_NoNullMask(rate, country_mean) ==
    IF ~isna(country_mean) THEN country_mean ELSE rate

\* the value of one cell after the loop of lines 86-91
ImputedRate(rate, country_mean) ==
    IF isna(rate) /\ ~isna(country_mean) THEN country_mean ELSE rate

\* lines 86-91: the rows of each country with a null rate get the country's
\* mean, when the country has one
Imputer(t) ==
    LET means == CountryMeans(t)
    IN  [i \in DOMAIN t |->
            WithRate(t[i], ImputedRate(t[i].pol3_immunization_rate,
                                       means[t[i].country]))]

\* lines 84-93
Impute ==
    /\ pc = "impute"
    /\ country_means' = CountryMeans(df_polio_vaccine)
    /\ df_polio_vaccine' = Imputer(df_polio_vaccine)
    /\ pc' = "stacked"
    /\ UNCHANGED <<df_polio, df_metadata, df_pop, df_vaccine, df_polio_clean,
                   df_income_time, stacked_traces, df_combined_grouped,
                   fig_vaccination_map>>

-----------------------------------------------------------------------------
(* create_stacked_area_chart, lines 98-181.                                *)

\* df_income_time.pivot(index='year', columns='income_group',
\* values='income_cases_per_million').fillna(0): lines 102-103.  The cell of
\* a (year, group) pair without a row, or with a NaN value, is 0.
StackedCell(income, y, g) ==
    LET hits == SelectSeq(income, LAMBDA r : r.year = y /\ r.income_group = g)
    IN  IF hits = <<>> \/ isna(hits[1].income_cases_per_million)
        THEN Num(0)
        ELSE hits[1].income_cases_per_million

\* the pivot's index: the years, ascending
StackedYears(income) ==
    SortSet({income[i].year : i \in DOMAIN income}, LAMBDA a, b : a < b)

\* the pivot's columns: the income groups, in ascending label order
StackedColumns(income) ==
    SortSet({income[i].income_group : i \in DOMAIN income},
            LAMBDA a, b : StrRank(a) < StrRank(b))

\* one column of df_stacked
StackedSeries(income, g) ==
    LET years == StackedYears(income)
    IN  [j \in DOMAIN years |-> StackedCell(income, years[j], g)]

\* df_stacked.mean(): line 117
income_group_averages(income, g) == mean(StackedSeries(income, g))

\* sort_values(ascending=False) of line 117: the order is descending with NaN
\* last.  The default sort kind, quicksort, is not stable, so the order of
\* groups with equal averages is whatever the sort produces: every
\* permutation that is descending is an outcome.
IsDescendingOrder(income, order) ==
    \A i, j \in DOMAIN order :
        i < j =>
            LET a == income_group_averages(income, order[i])
                b == income_group_averages(income, order[j])
            IN  isna(b) \/ FLeq(b, a)

Orderings(s) ==
    {p \in [DOMAIN s -> Range(s)] : \A i, j \in DOMAIN s : i # j => p[i] # p[j]}

\* color_map.get(income_group, '#5EB2D5'): lines 109-114, 128
color_map(g) ==
    CASE g = "Lower middle income" -> "#162C3F"
      [] g = "Low income" -> "#2B6387"
      [] g = "Upper middle income" -> "#5EB2D5"
      [] g = "High income" -> "#A4D5EE"
      [] OTHER -> "#5EB2D5"

\* lines 121-135: one go.Scatter per income group, in the sorted order
StackedTraces(income, order) ==
    [i \in DOMAIN order |->
        [name |-> order[i],
         x |-> StackedYears(income),
         y |-> StackedSeries(income, order[i]),
         fill |-> IF i > 1 THEN "tonexty" ELSE "tozeroy",
         fillcolor |-> color_map(order[i]),
         stackgroup |-> "one"]]

CreateStackedAreaChart ==
    /\ pc = "stacked"
    /\ \E order \in Orderings(StackedColumns(df_income_time)) :
          /\ IsDescendingOrder(df_income_time, order)
          /\ stacked_traces' = StackedTraces(df_income_time, order)
    /\ pc' = "map"
    /\ UNCHANGED <<df_polio, df_metadata, df_pop, df_vaccine, df_polio_clean,
                   df_income_time, df_polio_vaccine, country_means,
                   df_combined_grouped, fig_vaccination_map>>

-----------------------------------------------------------------------------
(* create_vaccination_map, lines 183-498.                                  *)

\* line 191: Python's // rounds down, as \div does
\* a variant whose division truncates toward zero
YearGroup_Truncating(year) ==
    LET d == year - 1980
    IN  (IF d < 0 THEN -((-d) \div 3) ELSE d \div 3) * 3 + 1980

YearGroup(year) == ((year - 1980) \div 3) * 3 + 1980

\* astype(str) of an integer: its decimal digits as character codes
RECURSIVE Digits(_)
Digits(n) == IF n < 10 THEN <<48 + n>> ELSE Digits(n \div 10) \o <<48 + (n % 10)>>

Str(n) == IF n < 0 THEN <<45>> \o Digits(-n) ELSE Digits(n)

\* line 192: "{year_group}-{year_group + 2}", a string of character codes
PeriodLabel(year_group) == Str(year_group) \o <<45>> \o Str(year_group + 2)

\* Python's < on str: lexicographic on the characters
RECURSIVE StrLess(_, _)
StrLess(a, b) ==
    IF a = <<>> THEN b # <<>>
    ELSE IF b = <<>> THEN FALSE
    ELSE IF Head(a) # Head(b) THEN Head(a) < Head(b)
    ELSE StrLess(Tail(a), Tail(b))

\* a variant whose top threshold is strict
get_vaccination_category_Strict(coverage) ==
    IF FLess(Num(95), coverage) THEN "Muy Alta (>=95%)"
    ELSE IF FLeq(Num(85), coverage) THEN "Alta (85-94%)"
    ELSE IF FLeq(Num(70), coverage) THEN "Media (70-84%)"
    ELSE IF FLeq(Num(50), coverage) THEN "Baja (50-69%)"
    ELSE "Muy Baja (<50%)"

\* the labels of the source are "Muy Alta (≥95%)", ...; ≥ is written >=
\* lines 204-214
get_vaccination_category(coverage) ==
    IF FLeq(Num(95), coverage) THEN "Muy Alta (>=95%)"
    ELSE IF FLeq(Num(85), coverage) THEN "Alta (85-94%)"
    ELSE IF FLeq(Num(70), coverage) THEN "Media (70-84%)"
    ELSE IF FLeq(Num(50), coverage) THEN "Baja (50-69%)"
    ELSE "Muy Baja (<50%)"

RECURSIVE ISqrtIn(_, _, _)
ISqrtIn(n, lo, hi) ==
    IF lo = hi THEN lo
    ELSE LET mid == (lo + hi + 1) \div 2
         IN  IF mid * mid <= n THEN ISqrtIn(n, mid, hi) ELSE ISqrtIn(n, lo, mid - 1)

\* the largest r with r * r <= n
ISqrt(n) == ISqrtIn(n, 0, 46340)

\* np.sqrt (line 221), rounded down to a multiple of 1/1000: NaN for a
\* negative cell, inf for inf
Sqrt(x) ==
    IF isna(x) \/ FLess(x, Num(0)) THEN NaN
    ELSE IF x.k = "inf" THEN PInf
    ELSE Rat(ISqrt((x.n \div x.d) * 1000000 + ((x.n % x.d) * 1000000) \div x.d),
             1000)

\* np.clip(x, lo, hi): NaN stays NaN
clip(x, lo, hi) ==
    IF isna(x) THEN NaN
    ELSE IF FLess(x, lo) THEN lo
    ELSE IF FLess(hi, x) THEN hi
    ELSE x

\* a variant without the np.clip of line 224
bubble_size_NoClip(cases_per_million) ==
    IF FLess(Num(0), cases_per_million)
    THEN FAdd(FMul(Sqrt(cases_per_million), Num(8)), Num(5))
    ELSE Num(3)

\* lines 219-224
bubble_size(cases_per_million) ==
    clip(IF FLess(Num(0), cases_per_million)
         THEN FAdd(FMul(Sqrt(cases_per_million), Num(8)), Num(5))
         ELSE Num(3),
         Num(3), Num(40))

\* the dict of lines 227-246; [lat, lon] in tenths of a degree
country_coords ==
    ("Afghanistan" :> <<330, 650>>) @@
    ("Algeria" :> <<280, 30>>) @@
    ("Angola" :> <<-120, 185>>) @@
    ("Argentina" :> <<-340, -640>>) @@
    ("Australia" :> <<-250, 1330>>) @@
    ("Bangladesh" :> <<240, 900>>) @@
    ("Brazil" :> <<-140, -510>>) @@
    ("Canada" :> <<600, -950>>) @@
    ("Chad" :> <<150, 190>>) @@
    ("Chile" :> <<-300, -710>>) @@
    ("China" :> <<350, 1050>>) @@
    ("Colombia" :> <<40, -720>>) @@
    ("Congo" :> <<-10, 150>>) @@
    ("Egypt" :> <<260, 300>>) @@
    ("Ethiopia" :> <<91, 405>>) @@
    ("France" :> <<460, 20>>) @@
    ("Germany" :> <<510, 90>>) @@
    ("Ghana" :> <<79, -10>>) @@
    ("India" :> <<200, 770>>) @@
    ("Indonesia" :> <<-8, 1139>>) @@
    ("Iran" :> <<324, 537>>) @@
    ("Iraq" :> <<332, 437>>) @@
    ("Kazakhstan" :> <<480, 669>>) @@
    ("Kenya" :> <<0, 379>>) @@
    ("Libya" :> <<263, 172>>) @@
    ("Madagascar" :> <<-188, 470>>) @@
    ("Mali" :> <<176, -30>>) @@
    ("Mexico" :> <<236, -1025>>) @@
    ("Mongolia" :> <<469, 1038>>) @@
    ("Morocco" :> <<318, -71>>) @@
    ("Myanmar" :> <<219, 959>>) @@
    ("Niger" :> <<176, 81>>) @@
    ("Nigeria" :> <<91, 87>>) @@
    ("Pakistan" :> <<304, 693>>) @@
    ("Peru" :> <<-92, -750>>) @@
    ("Philippines" :> <<129, 1218>>) @@
    ("Russia" :> <<615, 1053>>) @@
    ("Saudi Arabia" :> <<239, 451>>) @@
    ("Somalia" :> <<52, 462>>) @@
    ("South Africa" :> <<-306, 229>>) @@
    ("Sudan" :> <<129, 302>>) @@
    ("Tanzania" :> <<-64, 349>>) @@
    ("Thailand" :> <<159, 1006>>) @@
    ("Turkey" :> <<388, 352>>) @@
    ("Ukraine" :> <<484, 312>>) @@
    ("United Kingdom" :> <<554, -34>>) @@
    ("United States" :> <<371, -957>>) @@
    ("Uzbekistan" :> <<414, 646>>) @@
    ("Venezuela" :> <<64, -666>>) @@
    ("Vietnam" :> <<141, 1083>>) @@
    ("Yemen" :> <<156, 480>>) @@
    ("Zambia" :> <<-131, 278>>)

\* country_coords.get(x, [None, None])[0] and [1]: lines 249-254
lat(country) ==
    IF country \in DOMAIN country_coords
    THEN Rat(country_coords[country][1], 10) ELSE NaN

lon(country) ==
    IF country \in DOMAIN country_coords
    THEN Rat(country_coords[country][2], 10) ELSE NaN

\* lines 187-188: the rows with a rate, a cases_per_million and a 3-letter code
df_combined(t) ==
    SelectSeq(t, LAMBDA r :
        /\ ~isna(r.pol3_immunization_rate)
        /\ ~isna(r.cases_per_million)
        /\ r.code # NaS
        /\ Len(r.code) = 3)

GroupKey(r) ==
    [country |-> r.country, code |-> r.code, year_group |-> YearGroup(r.year),
     period_label |-> PeriodLabel(YearGroup(r.year)),
     income_group |-> r.income_group]

\* one row of df_combined_grouped: the aggregation of lines 195-199 and the
\* columns added by lines 216-254
GroupedRow(key, rows) ==
    LET rate == mean(Column(rows, LAMBDA r : r.pol3_immunization_rate))
        cpm == mean(Column(rows, LAMBDA r : r.cases_per_million))
    IN  [country |-> key.country, code |-> key.code,
         year_group |-> key.year_group, period_label |-> key.period_label,
         income_group |-> key.income_group,
         pol3_immunization_rate |-> rate,
         cases_per_million |-> cpm,
         total_pop |-> mean(Column(rows, LAMBDA r : r.total_pop)),
         vaccination_category |-> get_vaccination_category(rate),
         bubble_size |-> bubble_size(cpm),
         lat |-> lat(key.country),
         lon |-> lon(key.country)]

\* a variant whose groupby keeps the rows with a null key (dropna=False)
CombinedGrouped_KeepsNullKeys(t) ==
    LET c == df_combined(t)
    IN  {GroupedRow(GroupKey(c[i]),
                    SelectSeq(c, LAMBDA r : GroupKey(r) = GroupKey(c[i])))
            : i \in DOMAIN c}

\* lines 195-254.  groupby drops the rows with a null key (income_group).
\* The rows are kept as a set: their keys differ, and the order
\* sort_values('year_group') leaves rows of one period in is not read.
CombinedGrouped(t) ==
    LET c == SelectSeq(df_combined(t), LAMBDA r : r.income_group # NaS)
    IN  {GroupedRow(GroupKey(c[i]),
                    SelectSeq(c, LAMBDA r : GroupKey(r) = GroupKey(c[i])))
            : i \in DOMAIN c}

\* a variant without the cases_per_million >= 0 of line 260
InScatterOverlay_AnySign(r) == ~isna(r.lat) /\ ~isna(r.lon)

\* lines 257-261
InScatterOverlay(r) ==
    ~isna(r.lat) /\ ~isna(r.lon) /\ FLeq(Num(0), r.cases_per_million)

df_scatter_overlay(grouped) == {r \in grouped : InScatterOverlay(r)}

\* a variant that sorts the periods in descending order
SortedPeriods_Reversed(grouped) ==
    SortSet({r.period_label : r \in grouped}, LAMBDA a, b : StrLess(b, a))

\* sorted(df_combined_grouped['period_label'].unique()): lines 267, 316, 489
SortedPeriods(grouped) ==
    SortSet({r.period_label : r \in grouped}, StrLess)

Choropleth(rows) == [type |-> "choropleth", rows |-> rows]

Scattergeo(rows) == [type |-> "scattergeo", rows |-> rows]

\* the traces of one period: a choropleth, and a scattergeo when the period
\* has overlay rows (lines 270-312 and 317-356)
PeriodTraces(grouped, period) ==
    LET period_choropleth == {r \in grouped : r.period_label = period}
        period_scatter ==
            {r \in df_scatter_overlay(grouped) : r.period_label = period}
    IN  <<Choropleth(period_choropleth)>> \o
        (IF period_scatter # {} THEN <<Scattergeo(period_scatter)>> ELSE <<>>)

\* lines 315-358
Frames(grouped) ==
    LET periods == SortedPeriods(grouped)
    IN  [i \in DOMAIN periods |->
            [name |-> periods[i], data |-> PeriodTraces(grouped, periods[i])]]

\* lines 482-490: args[0] = [period] names the frame to animate to
SliderSteps(grouped) ==
    LET periods == SortedPeriods(grouped)
    IN  [i \in DOMAIN periods |->
            [label |-> periods[i], frame |-> periods[i], method |-> "animate"]]

\* sorted(...)[0] of line 267 raises IndexError when no row is left
CreateVaccinationMapRaises ==
    /\ pc = "map"
    /\ CombinedGrouped(df_polio_vaccine) = {}
    /\ df_combined_grouped' = {}
    /\ pc' = "raised"
    /\ UNCHANGED <<df_polio, df_metadata, df_pop, df_vaccine, df_polio_clean,
                   df_income_time, df_polio_vaccine, country_means,
                   stacked_traces, fig_vaccination_map>>

CreateVaccinationMap ==
    /\ pc = "map"
    /\ CombinedGrouped(df_polio_vaccine) # {}
    /\ df_combined_grouped' = CombinedGrouped(df_polio_vaccine)
    /\ fig_vaccination_map' =
          [data |-> PeriodTraces(df_combined_grouped',
                                 SortedPeriods(df_combined_grouped')[1]),
           frames |-> Frames(df_combined_grouped'),
           steps |-> SliderSteps(df_combined_grouped')]
    /\ pc' = "done"
    /\ UNCHANGED <<df_polio, df_metadata, df_pop, df_vaccine, df_polio_clean,
                   df_income_time, df_polio_vaccine, country_means,
                   stacked_traces>>

-----------------------------------------------------------------------------
(* The map builder on its own: the state at line 502, when                 *)
(* load_and_prepare_data has returned a joined table and the stacked-area  *)
(* chart is built.  The table is drawn from rows whose rates and counts    *)
(* lie on and around the thresholds of the two encodings.                  *)

MaxMapRows == 2

MapKey(c, cd, y, g) == [country |-> c, code |-> cd, year |-> y, income_group |-> g]

Profile(rate, n, pop) == [rate |-> rate, num_cases |-> n, total_pop |-> pop]

\* (pol3 rate, num_cases, total_pop): the rates on and just below the four
\* thresholds; counts per million that are negative, 0, below, at and above
\* (35/8)^2, infinite and null
MapProfiles ==
    { Profile(Rat(49999, 1000), Num(0), Num(1000000)),
      Profile(Num(50), Num(1), Num(4000000)),
      Profile(Rat(69999, 1000), Num(1), Num(1000000)),
      Profile(Num(70), Num(19), Num(1000000)),
      Profile(Rat(84999, 1000), Num(49), Num(2560000)),
      Profile(Num(85), Num(20), Num(1000000)),
      Profile(Rat(94999, 1000), Num(100), Num(1000000)),
      Profile(Num(95), Num(-1), Num(1000000)),
      Profile(Num(100), Num(1), Num(0)),
      Profile(Num(0), Num(-1), Num(0)),
      Profile(NaN, Num(1), Num(1000000)),
      Profile(Num(60), NaN, Num(1000000)) }

\* a second year of the first period, for means over two rows
SecondYearProfiles ==
    { Profile(Num(50), Num(1), Num(4000000)),
      Profile(Num(95), Num(-1), Num(1000000)),
      Profile(Num(100), Num(1), Num(0)) }

MapRow(k, p) ==
    [country |-> k.country, code |-> k.code, year |-> k.year,
     num_cases |-> p.num_cases, income_group |-> k.income_group,
     total_pop |-> p.total_pop,
     cases_per_million |-> CasesPerMillion(p.num_cases, p.total_pop),
     pol3_immunization_rate |-> p.rate]

\* rows of the years around the period boundaries and before 1980; a row of
\* a country the dict of lines 227-246 has, in the period of the rows of one
\* it lacks; a row whose code has no metadata row (a null income_group after
\* the left join of lines 53-56); a row of a code with a second metadata row
\* of another income group
EdgeRows ==
    LET p == Profile(Num(85), Num(20), Num(1000000))
    IN  { MapRow(MapKey("Chad", "TCD", 1978, "Low income"), p),
          MapRow(MapKey("Chad", "TCD", 1979, "Low income"), p),
          MapRow(MapKey("Chad", "TCD", 1982, "Low income"), p),
          MapRow(MapKey("Chad", "TCD", 1983, "Low income"), p),
          MapRow(MapKey("Kosovo", "XKX", 1980, NaS), p),
          MapRow(MapKey("Chad", "TCD", 1980, "Lower middle income"), p) }

MapRows ==
    {MapRow(MapKey("Chad", "TCD", 1980, "Low income"), p) : p \in MapProfiles}
    \cup
    {MapRow(MapKey("Chad", "TCD", 1981, "Low income"), p) : p \in SecondYearProfiles}
    \cup
    {MapRow(MapKey("Bolivia", "BOL", 1983, "Lower middle income"), p) :
        p \in MapProfiles}
    \cup EdgeRows

WithoutRate(t) ==
    [i \in DOMAIN t |->
        [country |-> t[i].country, code |-> t[i].code, year |-> t[i].year,
         num_cases |-> t[i].num_cases, income_group |-> t[i].income_group,
         total_pop |-> t[i].total_pop,
         cases_per_million |-> t[i].cases_per_million]]

\* the locals of load_and_prepare_data that are read from the files are not
\* tracked here; a table the loader returns is a table its imputer leaves as
\* it is
InitMap ==
    /\ pc = "map"
    /\ df_polio = <<>>
    /\ df_metadata = <<>>
    /\ df_pop = <<>>
    /\ df_vaccine = <<>>
    /\ df_polio_vaccine \in {t \in SeqsUpTo(MapRows, MaxMapRows) : Imputer(t) = t}
    /\ df_polio_clean = WithoutRate(df_polio_vaccine)
    /\ df_income_time = IncomeTime(df_polio_clean)
    /\ country_means = CountryMeans(df_polio_vaccine)
    /\ \E order \in Orderings(StackedColumns(df_income_time)) :
          /\ IsDescendingOrder(df_income_time, order)
          /\ stacked_traces = StackedTraces(df_income_time, order)
    /\ df_combined_grouped = {}
    /\ fig_vaccination_map = EmptyFigure

NextMap == CreateVaccinationMap \/ CreateVaccinationMapRaises

SpecMap == InitMap /\ [][NextMap]_vars

Next ==
    \/ PreparePolio
    \/ AggregateIncome
    \/ MergeVaccine
    \/ Impute
    \/ CreateStackedAreaChart
    \/ CreateVaccinationMap
    \/ CreateVaccinationMapRaises

Spec == Init /\ [][Next]_vars

-----------------------------------------------------------------------------
(* Properties of load_and_prepare_data.                                    *)

Prepared == pc # "prepare"
Aggregated == pc \notin {"prepare", "aggregate"}
Imputed == pc \in {"stacked", "map", "done", "raised"}

IsZero(x) == IsNum(x) /\ x.n = 0
IsInfinite(x) == x.k \in {"inf", "ninf"}

\* C1: after the merge, for every case row (with a count), cases_per_million
\* is null if and only if total_pop is null or zero, otherwise it is
\* num_cases / total_pop * 1e6; a zero or null population never gives
\* infinity.
C1_NullIffNoPopulation ==
    Prepared =>
        \A i \in DOMAIN df_polio_clean :
            LET r == df_polio_clean[i]
                nopop == isna(r.total_pop) \/ IsZero(r.total_pop)
            IN  /\ ~isna(r.num_cases) => (isna(r.cases_per_million) <=> nopop)
                /\ ~nopop /\ ~isna(r.num_cases) =>
                      r.cases_per_million =
                          Rat(r.num_cases.n * r.total_pop.d * MILLION,
                              r.num_cases.d * r.total_pop.n)
                /\ ~IsInfinite(r.cases_per_million)

\* the case rows of one (income_group, year) pair
GroupRows(g, y) ==
    SelectSeq(df_polio_clean, LAMBDA r : r.income_group = g /\ r.year = y)

\* the values of a column that are present, summed from left to right
RECURSIVE Total(_)
Total(s) ==
    IF s = <<>> THEN Num(0)
    ELSE IF isna(s[Len(s)]) THEN Total(SubSeq(s, 1, Len(s) - 1))
    ELSE FAdd(Total(SubSeq(s, 1, Len(s) - 1)), s[Len(s)])

\* C2: for every (income_group, year) row of the income aggregate,
\* income_cases_per_million is (sum of num_cases) / (sum of total_pop) * 1e6
\* over the group's case rows (sums over the values present); no row has a
\* null income_group, every pair of a case row with an income group has a
\* row, and no pair has two.
C2_IncomeRatioOfSums ==
    Aggregated =>
        /\ \A i \in DOMAIN df_income_time :
              LET a == df_income_time[i]
                  rows == GroupRows(a.income_group, a.year)
              IN  /\ a.income_group # NaS
                  /\ rows # <<>>
                  /\ a.income_cases_per_million =
                        FMul(FDiv(Total(Column(rows, LAMBDA r : r.num_cases)),
                                  Total(Column(rows, LAMBDA r : r.total_pop))),
                             Num(MILLION))
        /\ \A i, j \in DOMAIN df_income_time :
              (/\ df_income_time[i].income_group = df_income_time[j].income_group
               /\ df_income_time[i].year = df_income_time[j].year) => i = j
        /\ \A k \in DOMAIN df_polio_clean :
              df_polio_clean[k].income_group # NaS =>
                  \E i \in DOMAIN df_income_time :
                      /\ df_income_time[i].income_group = df_polio_clean[k].income_group
                      /\ df_income_time[i].year = df_polio_clean[k].year

\* a group of two case rows whose ratio of sums differs from the mean of the
\* per-row values, next to a case row without an income group
C2_Witness ==
    /\ Aggregated
    /\ \E k \in DOMAIN df_polio_clean : df_polio_clean[k].income_group = NaS
    /\ \E i \in DOMAIN df_income_time :
          LET a == df_income_time[i]
          IN  /\ Len(GroupRows(a.income_group, a.year)) >= 2
              /\ IsNum(a.income_cases_per_million)
              /\ IsNum(a.cases_per_million)
              /\ a.income_cases_per_million # a.cases_per_million

\* the joined table before the loop of lines 86-91
BeforeImputation == MergeVaccineData(df_polio_clean, df_vaccine)

\* the rates of a country's rows that are present
RatesOf(t, c) ==
    NotNull(Column(SelectSeq(t, LAMBDA r : r.country = c),
                   LAMBDA r : r.pol3_immunization_rate))

\* C3: the imputation step replaces every null pol3 rate of a country by the
\* mean of the country's non-null rates when it has one, leaves it null when
\* it has none, and changes no non-null rate and no other column.
C3_ImputerFillsCountryMean ==
    [][pc = "impute" =>
        /\ Len(df_polio_vaccine') = Len(df_polio_vaccine)
        /\ \A i \in DOMAIN df_polio_vaccine :
              LET old == df_polio_vaccine[i]
                  new == df_polio_vaccine'[i]
                  rates == RatesOf(df_polio_vaccine, old.country)
              IN  /\ new = [old EXCEPT !.pol3_immunization_rate =
                                           new.pol3_immunization_rate]
                  /\ ~isna(old.pol3_immunization_rate) =>
                        new.pol3_immunization_rate = old.pol3_immunization_rate
                  /\ isna(old.pol3_immunization_rate) /\ rates = <<>> =>
                        isna(new.pol3_immunization_rate)
                  /\ isna(old.pol3_immunization_rate) /\ rates # <<>> =>
                        new.pol3_immunization_rate =
                            FDiv(Total(rates), Num(Len(rates)))]_vars

\* after the imputation: a country with two different rates and a filled
\* null, and a country whose only rate stayed null
C3_Witness ==
    /\ Imputed
    /\ \E i, j, k \in DOMAIN df_polio_vaccine :
          /\ BeforeImputation[i].country = BeforeImputation[j].country
          /\ BeforeImputation[i].country = BeforeImputation[k].country
          /\ isna(BeforeImputation[i].pol3_immunization_rate)
          /\ ~isna(df_polio_vaccine[i].pol3_immunization_rate)
          /\ ~isna(BeforeImputation[j].pol3_immunization_rate)
          /\ ~isna(BeforeImputation[k].pol3_immunization_rate)
          /\ BeforeImputation[j].pol3_immunization_rate #
                 BeforeImputation[k].pol3_immunization_rate

\* C4: the imputation is idempotent: on the imputed table, a second pass of
\* the imputer changes no value, and the country means computed again are
\* the means of the first pass.
C4_ImputerIdempotent ==
    Imputed =>
        /\ Imputer(df_polio_vaccine) = df_polio_vaccine
        /\ CountryMeans(df_polio_vaccine) = country_means

\* an imputed table with a filled rate and a rate left null
C4_Witness ==
    /\ Imputed
    /\ \E i, j \in DOMAIN df_polio_vaccine :
          /\ isna(BeforeImputation[i].pol3_immunization_rate)
          /\ ~isna(df_polio_vaccine[i].pol3_immunization_rate)
          /\ isna(df_polio_vaccine[j].pol3_immunization_rate)

-----------------------------------------------------------------------------
(* Properties of the chart builders.                                       *)

LayerTypes(traces) == [i \in DOMAIN traces |-> traces[i].type]

\* C5: every frame and the initial figure carry the same layer types in the
\* same order: a choropleth followed by a point layer.
C5_FramesUniform ==
    pc = "done" =>
        /\ LayerTypes(fig_vaccination_map.data) = <<"choropleth", "scattergeo">>
        /\ \A i \in DOMAIN fig_vaccination_map.frames :
              LayerTypes(fig_vaccination_map.frames[i].data) =
                  <<"choropleth", "scattergeo">>

PeriodLabels == {r.period_label : r \in df_combined_grouped}

\* C6: one frame per distinct period label of the aggregate, in ascending
\* order; one slider step per frame, in the same order, that animates to the
\* frame of that name; the initial layers show the rows of the first period.
C6_OneFramePerPeriod ==
    pc = "done" =>
        LET frames == fig_vaccination_map.frames
            steps == fig_vaccination_map.steps
            data == fig_vaccination_map.data
        IN  /\ {frames[i].name : i \in DOMAIN frames} = PeriodLabels
            /\ Len(frames) = Cardinality(PeriodLabels)
            /\ \A i, j \in DOMAIN frames :
                  i < j => StrLess(frames[i].name, frames[j].name)
            /\ \A i \in DOMAIN frames :
                  frames[i].data[1].rows =
                      {r \in df_combined_grouped : r.period_label = frames[i].name}
            /\ Len(steps) = Len(frames)
            /\ \A i \in DOMAIN steps :
                  /\ steps[i].frame = frames[i].name
                  /\ steps[i].label = frames[i].name
                  /\ steps[i].method = "animate"
            /\ data # <<>>
            /\ \A k \in DOMAIN data :
                  \A r \in data[k].rows : r.period_label = frames[1].name
            /\ data[1].rows =
                  {r \in df_combined_grouped : r.period_label = frames[1].name}

\* a finished map of at least two periods whose first input row is of a
\* later period than its last
C6_Witness ==
    /\ pc = "done"
    /\ Len(fig_vaccination_map.frames) >= 2
    /\ Len(df_polio_vaccine) >= 2
    /\ YearGroup(df_polio_vaccine[1].year) >
           YearGroup(df_polio_vaccine[Len(df_polio_vaccine)].year)
    /\ \E r \in df_combined_grouped :
          r.year_group = YearGroup(df_polio_vaccine[1].year)

\* C7: the load followed by both chart builders never raises, whatever
\* values of the rows are null.
C7_NeverRaises == pc # "raised"

TraceAverage(trace) == mean(trace.y)

-----------------------------------------------------------------------------
(* Properties of the encodings of the map builder, under SpecMap.          *)

CategoryRank(c) ==
    CASE c = "Muy Baja (<50%)" -> 1
      [] c = "Baja (50-69%)" -> 2
      [] c = "Media (70-84%)" -> 3
      [] c = "Alta (85-94%)" -> 4
      [] c = "Muy Alta (>=95%)" -> 5
      [] OTHER -> 0

\* the rows of the joined table a row of the aggregate is computed from
SourceRows(g) ==
    SelectSeq(df_combined(df_polio_vaccine), LAMBDA r :
        /\ r.country = g.country /\ r.code = g.code
        /\ r.income_group = g.income_group
        /\ YearGroup(r.year) = g.year_group)

\* C8: the category of a row of the aggregate follows from its mean pol3
\* rate: >= 95 Very High, [85, 95) High, [70, 85) Medium, [50, 70) Low,
\* < 50 Very Low; each rate has exactly one of the five categories, and a
\* higher rate never has a lower category.
C8_CategoryThresholds ==
    pc = "done" =>
        /\ \A g \in df_combined_grouped :
              LET x == g.pol3_immunization_rate
                  c == g.vaccination_category
                  rates == Column(SourceRows(g), LAMBDA r : r.pol3_immunization_rate)
              IN  /\ x = FDiv(Total(rates), Num(Len(rates)))
                  /\ CategoryRank(c) \in 1..5
                  /\ CategoryRank(c) = 5 <=> FLeq(Num(95), x)
                  /\ CategoryRank(c) = 4 <=> FLeq(Num(85), x) /\ FLess(x, Num(95))
                  /\ CategoryRank(c) = 3 <=> FLeq(Num(70), x) /\ FLess(x, Num(85))
                  /\ CategoryRank(c) = 2 <=> FLeq(Num(50), x) /\ FLess(x, Num(70))
                  /\ CategoryRank(c) = 1 <=> FLess(x, Num(50))
        /\ \A g, h \in df_combined_grouped :
              FLeq(g.pol3_immunization_rate, h.pol3_immunization_rate) =>
                  CategoryRank(g.vaccination_category) <=
                      CategoryRank(h.vaccination_category)

\* a finished map with a row at 95 and a row just below it
C8_Witness ==
    /\ pc = "done"
    /\ \E g, h \in df_combined_grouped :
          /\ g.pol3_immunization_rate = Num(95)
          /\ g.vaccination_category = "Muy Alta (>=95%)"
          /\ h.pol3_immunization_rate = Rat(94999, 1000)
          /\ h.vaccination_category = "Alta (85-94%)"

\* s = clip(sqrt(x) * 8 + 5, 3, 40) for a cell x > 0, said without the
\* builder's operators: 40 from x = (35/8)^2 on, and below it 5 + 8 q for
\* the multiple q of 1/1000 with q^2 <= x < (q + 1/1000)^2
IsClippedRoot(x, s) ==
    IF x.k = "inf" \/ FLeq(Rat(1225, 64), x)
    THEN s = Num(40)
    ELSE LET q == FDiv(FAdd(s, Num(-5)), Num(8))
             q1 == FAdd(q, Rat(1, 1000))
         IN  /\ IsNum(q) /\ (q.n * 1000) % q.d = 0
             /\ FLeq(Num(0), q)
             /\ FLeq(FMul(q, q), x)
             /\ FLess(x, FMul(q1, q1))

InSizeRange(s) == FLeq(Num(3), s) /\ FLeq(s, Num(40))

SizesMonotone ==
    \A g, h \in df_combined_grouped :
        FLeq(g.cases_per_million, h.cases_per_million) =>
            FLeq(g.bubble_size, h.bubble_size)

\* C9, as stated: bubble_size is 3 when the mean cases_per_million is 0 and
\* clip(sqrt(cases_per_million) * 8 + 5, 3, 40) otherwise; so it lies in
\* [3, 40], is 40 at 100 and is non-decreasing in cases_per_million.
C9_SizeThreeAtZeroElseClippedRoot ==
    pc = "done" =>
        /\ \A g \in df_combined_grouped :
              LET x == g.cases_per_million
                  s == g.bubble_size
              IN  /\ IsZero(x) => s = Num(3)
                  /\ ~IsZero(x) =>
                        s = clip(FAdd(FMul(Sqrt(x), Num(8)), Num(5)), Num(3), Num(40))
                  /\ InSizeRange(s)
                  /\ x = Num(100) => s = Num(40)
        /\ SizesMonotone

\* C9, amended: bubble_size is 3 when the mean cases_per_million is not
\* greater than 0 (zero, negative or NaN) and
\* clip(sqrt(cases_per_million) * 8 + 5, 3, 40) when it is; so it lies in
\* [3, 40], is 40 at 100 and is non-decreasing in cases_per_million.
C9_SizeThreeUnlessPositive ==
    pc = "done" =>
        /\ \A g \in df_combined_grouped :
              LET x == g.cases_per_million
                  s == g.bubble_size
              IN  /\ ~FLess(Num(0), x) => s = Num(3)
                  /\ FLess(Num(0), x) => IsClippedRoot(x, s)
                  /\ InSizeRange(s)
                  /\ x = Num(100) => s = Num(40)
        /\ SizesMonotone

\* a finished map with a negative mean at size 3, a mean of 100 at size 40
C9_Witness ==
    /\ pc = "done"
    /\ \E g, h \in df_combined_grouped :
          /\ FLess(g.cases_per_million, Num(0))
          /\ g.bubble_size = Num(3)
          /\ h.cases_per_million = Num(100)
          /\ h.bubble_size = Num(40)

-----------------------------------------------------------------------------
(* Properties of the aggregate of the map builder, under SpecMap.          *)

\* the rows of the joined table that pass lines 187-188 and have an income
\* group
KeyedRows ==
    {r \in Range(df_polio_vaccine) :
        /\ ~isna(r.pol3_immunization_rate)
        /\ ~isna(r.cases_per_million)
        /\ r.code # NaS /\ Len(r.code) = 3
        /\ r.income_group # NaS}

\* the number a string of decimal digits writes
RECURSIVE DecimalValue(_)
DecimalValue(s) ==
    IF s = <<>> THEN 0
    ELSE 10 * DecimalValue(SubSeq(s, 1, Len(s) - 1)) + (s[Len(s)] - 48)

IsDecimal(s) == s # <<>> /\ \A i \in DOMAIN s : s[i] \in 48..57

\* label reads "{first}-{last}"
ReadsAsRange(label, first, last) ==
    \E k \in DOMAIN label :
        /\ label[k] = 45
        /\ IsDecimal(SubSeq(label, 1, k - 1))
        /\ IsDecimal(SubSeq(label, k + 1, Len(label)))
        /\ DecimalValue(SubSeq(label, 1, k - 1)) = first
        /\ DecimalValue(SubSeq(label, k + 1, Len(label))) = last

\* the rows of the aggregate a row of the joined table is averaged into
RowsOfKey(r) ==
    {g \in df_combined_grouped :
        /\ g.country = r.country /\ g.code = r.code
        /\ g.income_group = r.income_group
        /\ g.year_group <= r.year /\ r.year <= g.year_group + 2}

\* C11: every year falls in the 3-year window that starts at
\* bucket = 1980 + 3 * floor((year - 1980) / 3), labelled
\* "{bucket}-{bucket + 2}": bucket <= year <= bucket + 2 for every year, the
\* years before 1980 included; 1980 and 1982 are in "1980-1982" and 1983 is
\* in "1983-1985".
C11_ThreeYearBuckets ==
    pc = "done" =>
        /\ \A g \in df_combined_grouped :
              /\ (g.year_group - 1980) % 3 = 0
              /\ ReadsAsRange(g.period_label, g.year_group, g.year_group + 2)
              /\ \E r \in KeyedRows : g \in RowsOfKey(r)
        /\ \A r \in KeyedRows :
              /\ RowsOfKey(r) # {}
              /\ r.year \in {1980, 1982} =>
                    \A g \in RowsOfKey(r) :
                        g.period_label = <<49, 57, 56, 48, 45, 49, 57, 56, 50>>
              /\ r.year = 1983 =>
                    \A g \in RowsOfKey(r) :
                        g.period_label = <<49, 57, 56, 51, 45, 49, 57, 56, 53>>

\* a finished map of a row of 1979, in the window "1977-1979", and a row of
\* 1982, in the window "1980-1982"
C11_Witness ==
    /\ pc = "done"
    /\ \E r, q \in KeyedRows :
          /\ r.year = 1979 /\ q.year = 1982
          /\ \E g \in RowsOfKey(r) :
                /\ g.year_group = 1977
                /\ g.period_label = <<49, 57, 55, 55, 45, 49, 57, 55, 57>>
          /\ \E h \in RowsOfKey(q) : h.year_group = 1980

\* the rows the layers of one type show
LayerRows(traces, type) ==
    UNION {traces[k].rows : k \in {j \in DOMAIN traces : traces[j].type = type}}

\* C12: in every frame, a country the coordinate lookup lacks is in the
\* choropleth layer and not in the point layer; the point layer shows exactly
\* the rows of the period that have a latitude, a longitude and a mean
\* cases_per_million that is not negative (no rows when the frame has no
\* point layer).
C12_PointLayerRows ==
    pc = "done" =>
        \A i \in DOMAIN fig_vaccination_map.frames :
            LET frame == fig_vaccination_map.frames[i]
                period == {g \in df_combined_grouped : g.period_label = frame.name}
                choropleth == LayerRows(frame.data, "choropleth")
                points == LayerRows(frame.data, "scattergeo")
            IN  /\ \A g \in period :
                      g.country \notin DOMAIN country_coords =>
                          /\ isna(g.lat) /\ isna(g.lon)
                          /\ g \in choropleth /\ g \notin points
                /\ points =
                      {g \in period :
                          /\ ~isna(g.lat) /\ ~isna(g.lon)
                          /\ FLeq(Num(0), g.cases_per_million)}
                /\ \A g \in points :
                      /\ g.country \in DOMAIN country_coords
                      /\ g.lat = Rat(country_coords[g.country][1], 10)
                      /\ g.lon = Rat(country_coords[g.country][2], 10)

\* a frame that shows Bolivia, which the lookup lacks, and Chad, which it
\* has, both with a mean cases_per_million above 0: Chad alone is in the
\* point layer
C12_Witness ==
    /\ pc = "done"
    /\ \E i \in DOMAIN fig_vaccination_map.frames :
          LET data == fig_vaccination_map.frames[i].data
          IN  \E g, h \in LayerRows(data, "choropleth") :
                  /\ g.country = "Bolivia" /\ h.country = "Chad"
                  /\ FLess(Num(0), g.cases_per_million)
                  /\ g \notin LayerRows(data, "scattergeo")
                  /\ h \in LayerRows(data, "scattergeo")

\* C13: the aggregate has at most one row per (country, year_group), and no
\* country is twice in the choropleth layer of a frame, whatever the joined
\* table.
C13_OneRowPerCountryPeriod ==
    pc = "done" =>
        /\ \A g, h \in df_combined_grouped :
              g.country = h.country /\ g.year_group = h.year_group => g = h
        /\ \A i \in DOMAIN fig_vaccination_map.frames :
              \A g, h \in LayerRows(fig_vaccination_map.frames[i].data,
                                    "choropleth") :
                  g.country = h.country => g = h

LayerTypeNames == {"choropleth", "scattergeo"}

\* the rows the layers of the figure show, the initial ones included
ShownRows ==
    LET frames == fig_vaccination_map.frames
        data == fig_vaccination_map.data
    IN  UNION ({LayerRows(data, ty) : ty \in LayerTypeNames} \cup
               {LayerRows(frames[i].data, ty) :
                    i \in DOMAIN frames, ty \in LayerTypeNames})

\* the rows of the joined table that pass lines 187-188 and have no income
\* group
NullIncomeRows ==
    {r \in Range(df_polio_vaccine) :
        /\ ~isna(r.pol3_immunization_rate)
        /\ ~isna(r.cases_per_million)
        /\ r.code # NaS /\ Len(r.code) = 3
        /\ r.income_group = NaS}

\* C14: every row of the aggregate has an income group; a row of the joined
\* table without one is in no layer of any frame, even when it has a rate, a
\* cases_per_million and a 3-letter code: a layer shows its country, code
\* and period only for the rows of them that have an income group.
C14_NoNullIncomeGroup ==
    pc = "done" =>
        /\ \A g \in df_combined_grouped \cup ShownRows : g.income_group # NaS
        /\ ShownRows = df_combined_grouped
        /\ \A r \in NullIncomeRows :
              \A g \in ShownRows :
                  /\ g.country = r.country /\ g.code = r.code
                  /\ g.year_group <= r.year /\ r.year <= g.year_group + 2
                  => \E q \in KeyedRows : g \in RowsOfKey(q)

\* a finished map of a table with a row of Kosovo, which has a rate, a
\* cases_per_million and the code XKX and no income group, and a row of
\* Chad: the layers show Chad and not Kosovo
C14_Witness ==
    /\ pc = "done"
    /\ \E r \in NullIncomeRows :
          /\ r.country = "Kosovo"
          /\ \A g \in ShownRows : g.country # r.country
    /\ \E g \in ShownRows : g.country = "Chad"

====
